---- MODULE Spec2Model ----
(***************************************************************************)
(* The video composition engine of services/simple_video_service.py        *)
(* (SimpleVideoService.create_video_with_ffmpeg and its helpers) and the   *)
(* schedule registry of services/scheduler_service.py (SchedulerService).  *)
(*                                                                         *)
(* Time is exact rational arithmetic.  A duration given by the caller is a *)
(* whole number of ticks of 0.2 s (the lead-in offset of the captions is   *)
(* one tick, a frame at 30 fps is 1/6 tick, a millisecond is 1/200 tick).  *)
(* Derived durations are fractions [n |-> numerator, d |-> denominator] of *)
(* a tick.  Binary floating-point rounding is not modelled.                *)
(***************************************************************************)
EXTENDS Integers, Sequences, FiniteSets, TLC

VARIABLES
    \* --- the duration allocator applied as a pure function (SpecAlloc)
    alloc_images,        \* the validated image list (image ids)
    alloc_duration,      \* audio_duration, in ticks
    alloc_cap,           \* max_duration_per_image, in ticks
    alloc_plan,          \* NoPlan, or [image_paths, duration_per_image]
    \* --- the caption cue generator applied as a pure function (SpecCue)
    cue_words,           \* script_data['script'].split()
    cue_duration,        \* audio_duration, in ticks
    cue_srt,             \* NoSrt, or the cues of the returned SRT text
    \* --- the encoder probe of the constructor (SpecEnc)
    enc_system,          \* platform.system()
    enc_probe,           \* what running 'ffmpeg -encoders' does
    enc_state,           \* "new", "constructed" or "raised"
    enc_hw,              \* self.hw_encoder after construction
    \* --- one render job, create_video_with_ffmpeg (Spec)
    pc,                  \* the job's position
    image_paths,         \* the caller's image list (image ids)
    file_result,         \* per image: what the 'file' signature check does
    audio_duration,      \* in ticks
    script,              \* NoScript, or the words of script_data['script']
    subtitles_path,      \* "none", "missing" or "exists" (caller's SRT file)
    hw_encoder,          \* self.hw_encoder
    valid_images,        \* the images kept by the validation loop
    plan,                \* NoPlan, or [image_paths, duration_per_image]
    cmd,                 \* NoCmd, or the composition command line
    compose_calls,       \* composition encoder invocations so far
    compose_exit,        \* "none", or how the composition invocation ended
    caption_calls,       \* burn-in encoder invocations so far
    caption_exit,        \* "none", or how the caption phase ended
    temp_srt,            \* temp_srt flag of _add_subtitles_to_video
    srt_file,            \* the generated cue file in TEMP_DIR: NoSrt or cues
    output_file,         \* "absent", "partial", "phase1" or "captioned"
    captioned_file,      \* whether <stem>_captioned exists
    result,              \* "pending", "True" or "False": the return value
    \* --- the schedule registry, services/scheduler_service.py (SpecSched,
    \*     SpecRun)
    schedules,           \* self.schedules, in insertion order
    jobs,                \* the jobs registered in self.scheduler
    storage_file,        \* the content of user_data/schedules.json
    last_call,           \* the last call made on the service and how it ended
    keys_valid,          \* what config.validate_api_keys() answers
    \* --- two concurrent caption passes sharing TEMP_DIR (SpecTwoJobs)
    tj_pc,               \* per job: its position in _add_subtitles_to_video
    tj_srt_path,         \* per job: the second in its cue file name, 0 if none
    tj_clock,            \* int(time.time())
    temp_dir,            \* the cue files in TEMP_DIR: [path, owner]
    tj_clobbered,        \* per job: its cue file was rewritten or removed
                         \* by the other job while its encoder was reading it
    \* --- the web-triggered automation run (SpecWeb)
    automation_status,   \* the module-level dict of app.py
    background_tasks     \* the run_automation_async tasks added and not yet
                         \* ended, oldest first: "pending" or "executing"

allocVars == <<alloc_images, alloc_duration, alloc_cap, alloc_plan>>
cueVars   == <<cue_words, cue_duration, cue_srt>>
encVars   == <<enc_system, enc_probe, enc_state, enc_hw>>
jobVars   == <<pc, image_paths, file_result, audio_duration, script,
               subtitles_path, hw_encoder, valid_images, plan, cmd,
               compose_calls, compose_exit, caption_calls, caption_exit,
               temp_srt, srt_file, output_file, captioned_file, result>>
schedVars == <<schedules, jobs, storage_file, last_call, keys_valid>>
twoVars   == <<tj_pc, tj_srt_path, tj_clock, temp_dir, tj_clobbered>>
webVars   == <<automation_status, background_tasks>>
vars      == <<allocVars, cueVars, encVars, jobVars, schedVars, twoVars, webVars>>

-----------------------------------------------------------------------------
(* Bounds of the model *)

MaxAllocImages == 5
MaxAllocTicks  == 100
MaxCueWords    == 7
MaxCueTicks    == 40
MaxImages      == 3
MaxSeconds     == 12
MaxWords       == 7

-----------------------------------------------------------------------------
(* Units and exact fractions *)

Seconds(s) == 5 * s

Rat(n, d) == [n |-> n, d |-> d]

RLe(a, b) == a.n * b.d <= b.n * a.d

RLt(a, b) == a.n * b.d < b.n * a.d

REq(a, b) == a.n * b.d = b.n * a.d

RMin(a, b) == IF RLe(a, b) THEN a ELSE b

RAdd(a, b) == Rat(a.n * b.d + b.n * a.d, a.d * b.d)

RScale(k, a) == Rat(k * a.n, a.d)

NoPlan == [image_paths |-> <<>>, duration_per_image |-> Rat(0, 1)]

-----------------------------------------------------------------------------
(* Duration allocator: create_video_with_ffmpeg, lines 74-87 *)

max_duration_per_image == Seconds(4)

fps == 30

\* audio_duration / len(image_paths) > max_duration_per_image
NeedsMoreImages(D, N, cap) == RLt(Rat(cap, 1), Rat(D, N))

ImagesNeeded_Ceil(D, cap) == (D + cap - 1) \div cap

\* int(audio_duration / max_duration_per_image) + 1
ImagesNeeded(D, cap) == (D \div cap) + 1

RECURSIVE Repeat(_, _)
\* paths * k
Repeat(paths, k) == IF k <= 0 THEN <<>> ELSE paths \o Repeat(paths, k - 1)

Take(s, k) == SubSeq(s, 1, IF k < Len(s) THEN k ELSE Len(s))

ExtendedPaths_NoExtraCopy(paths, needed) ==
    Take(Repeat(paths, needed \div Len(paths)), needed)

\* (image_paths * ((images_needed // len(image_paths)) + 1))[:images_needed]
ExtendedPaths(paths, needed) ==
    Take(Repeat(paths, (needed \div Len(paths)) + 1), needed)

PlanPaths(paths, D, cap) ==
    IF NeedsMoreImages(D, Len(paths), cap)
    THEN ExtendedPaths(paths, ImagesNeeded(D, cap))
    ELSE paths

DurationPerImage_NoRecompute(paths, D, cap) ==
    RMin(Rat(D, Len(paths)), Rat(cap, 1))

\* min(D / N, cap), recomputed as D / len(extended) when images are repeated
DurationPerImage(paths, D, cap) ==
    IF NeedsMoreImages(D, Len(paths), cap)
    THEN Rat(D, Len(PlanPaths(paths, D, cap)))
    ELSE RMin(Rat(D, Len(paths)), Rat(cap, 1))

Allocate(paths, D, cap) ==
    [image_paths        |-> PlanPaths(paths, D, cap),
     duration_per_image |-> DurationPerImage(paths, D, cap)]

\* frames = int(duration_per_image * 30), the duration being in ticks of 1/5 s
Frames(dur) == (dur.n * fps) \div (dur.d * Seconds(1))

-----------------------------------------------------------------------------
(* Caption cues: _create_subtitle_content and _seconds_to_srt_time *)

NoScript == <<"<no script>">>

ChunkWords == 3

\* the 0.2 s added to every cue time
SyncOffset == Rat(Seconds(1), 5)

\* any(keyword.lower() in clean_word.lower() for keyword in emphasis_keywords)
HasEmphasisKeyword(word) == word \in {"secret", "SECRET"}

\* word.upper()
Upper(word) ==
    CASE word = "secret" -> "SECRET"
      [] word = "word"   -> "WORD"
      [] word = "one"    -> "ONE"
      [] word = "two"    -> "TWO"
      [] word = "three"  -> "THREE"
      [] word = "four"   -> "FOUR"
      [] word = "five"   -> "FIVE"
      [] word = "six"    -> "SIX"
      [] OTHER           -> word

Emphasize(word) == IF HasEmphasisKeyword(word) THEN Upper(word) ELSE word

RECURSIVE Chunks_NoRemainder(_)
Chunks_NoRemainder(words) ==
    IF Len(words) < ChunkWords THEN <<>>
    ELSE <<[i \in 1..ChunkWords |-> Emphasize(words[i])]>>
         \o Chunks_NoRemainder(SubSeq(words, ChunkWords + 1, Len(words)))

RECURSIVE Chunks(_)
\* a chunk is closed as soon as it holds 3 words; the remainder is the last
Chunks(words) ==
    IF Len(words) = 0 THEN <<>>
    ELSE IF Len(words) <= ChunkWords THEN <<[i \in 1..Len(words) |-> Emphasize(words[i])]>>
    ELSE <<[i \in 1..ChunkWords |-> Emphasize(words[i])]>>
         \o Chunks(SubSeq(words, ChunkWords + 1, Len(words)))

\* HH:MM:SS,mmm of a time given in ticks; every field is truncated
seconds_to_srt_time(t) ==
    LET millis == (t.n * 1000) \div (t.d * Seconds(1))
    IN  [hours    |-> millis \div 3600000,
         minutes  |-> (millis % 3600000) \div 60000,
         secs     |-> (millis % 60000) \div 1000,
         millisecs |-> millis % 1000]

CueStart(i, D, k) == RAdd(RScale(i, Rat(D, k)), SyncOffset)

CueEnd_NoClamp(i, D, k) == RAdd(RScale(i + 1, Rat(D, k)), SyncOffset)

\* end_time, set to audio_duration when it exceeds it
CueEnd(i, D, k) ==
    LET end_time == RAdd(RScale(i + 1, Rat(D, k)), SyncOffset)
    IN  IF RLt(Rat(D, 1), end_time) THEN Rat(D, 1) ELSE end_time

RECURSIVE CueLoop(_, _, _)
\* the loop over enumerate(chunks), from index i on; it breaks at the first
\* start_time >= audio_duration
CueLoop(chunks, D, i) ==
    IF i >= Len(chunks) THEN <<>>
    ELSE IF RLe(Rat(D, 1), CueStart(i, D, Len(chunks))) THEN <<>>
    ELSE <<[index |-> i + 1,
            start |-> seconds_to_srt_time(CueStart(i, D, Len(chunks))),
            end   |-> seconds_to_srt_time(CueEnd(i, D, Len(chunks))),
            text  |-> chunks[i + 1]]>>
         \o CueLoop(chunks, D, i + 1)

\* the cues of the SRT text; <<>> stands for the empty string
create_subtitle_content(words, D) ==
    IF words = NoScript THEN <<>>
    ELSE IF Len(Chunks(words)) = 0 THEN <<>>
    ELSE CueLoop(Chunks(words), D, 0)

-----------------------------------------------------------------------------
(* Encoder probe: _detect_hardware_encoder and __init__ *)

Systems == {"Darwin", "Linux", "Windows", "Other"}

Encoders == {"h264_videotoolbox", "h264_nvenc", "h264_vaapi", "h264_qsv"}

\* what subprocess.run(['ffmpeg', '-hide_banner', '-encoders']) does: it
\* raises (tool missing, timeout) or returns a text listing some encoders
Probes ==
    {[raises |-> TRUE, listed |-> {}]}
    \cup {[raises |-> FALSE, listed |-> L] : L \in SUBSET Encoders}

NoEncoder == "None"

\* the body of the try block, lines 373-396
ProbeResult(system, probe) ==
    CASE system = "Darwin" ->
           IF "h264_videotoolbox" \in probe.listed THEN "h264_videotoolbox"
           ELSE NoEncoder
      [] system = "Linux" ->
           IF "h264_nvenc" \in probe.listed THEN "h264_nvenc"
           ELSE IF "h264_vaapi" \in probe.listed THEN "h264_vaapi"
           ELSE NoEncoder
      [] system = "Windows" ->
           IF "h264_nvenc" \in probe.listed THEN "h264_nvenc"
           ELSE IF "h264_qsv" \in probe.listed THEN "h264_qsv"
           ELSE NoEncoder
      [] OTHER -> NoEncoder

detect_hardware_encoder_NoExcept(system, probe) ==
    IF probe.raises THEN "<raised>" ELSE ProbeResult(system, probe)

\* try ... except Exception: return None
detect_hardware_encoder(system, probe) ==
    IF probe.raises THEN NoEncoder ELSE ProbeResult(system, probe)

\* '-c:v' of the command lines: the hardware encoder, else libx264
Codec(hw) == IF hw = NoEncoder THEN "libx264" ELSE hw

-----------------------------------------------------------------------------
(* Values of the variables a specification does not use *)

NoCues == [done |-> FALSE, cues |-> <<>>]

IdleAlloc ==
    /\ alloc_images = <<>>
    /\ alloc_duration = 0
    /\ alloc_cap = 0
    /\ alloc_plan = NoPlan

IdleCue ==
    /\ cue_words = NoScript
    /\ cue_duration = 0
    /\ cue_srt = NoCues

IdleEnc ==
    /\ enc_system = "Other"
    /\ enc_probe = [raises |-> TRUE, listed |-> {}]
    /\ enc_state = "idle"
    /\ enc_hw = NoEncoder

IdleJob ==
    /\ pc = "Idle"
    /\ image_paths = <<>>
    /\ file_result = <<>>
    /\ audio_duration = 0
    /\ script = NoScript
    /\ subtitles_path = "none"
    /\ hw_encoder = NoEncoder
    /\ valid_images = <<>>
    /\ plan = NoPlan
    /\ cmd = [image_inputs |-> <<>>, audio_input |-> 0, map_audio |-> 0,
              clips |-> <<>>, concat_n |-> 0, codec |-> ""]
    /\ compose_calls = 0
    /\ compose_exit = "none"
    /\ caption_calls = 0
    /\ caption_exit = "none"
    /\ temp_srt = FALSE
    /\ srt_file = <<>>
    /\ output_file = "absent"
    /\ captioned_file = FALSE
    /\ result = "pending"

\* the value of last_call before any call
NoCall == [op |-> "none", id |-> <<>>, args |-> <<>>, ok |-> TRUE, ret |-> <<>>,
           before |-> <<>>]

IdleSched ==
    /\ schedules = <<>>
    /\ jobs = {}
    /\ storage_file = <<>>
    /\ last_call = NoCall
    /\ keys_valid = TRUE

IdleTwo ==
    /\ tj_pc = <<>>
    /\ tj_srt_path = <<>>
    /\ tj_clock = 0
    /\ temp_dir = {}
    /\ tj_clobbered = <<>>

\* app.py lines 54-61
InitialStatus ==
    [running |-> FALSE, current_step |-> "", progress |-> 0, logs |-> <<>>,
     last_run |-> "None", error |-> "None"]

IdleWeb ==
    /\ automation_status = InitialStatus
    /\ background_tasks = <<>>

ImageList(n) == [i \in 1..n |-> i]

-----------------------------------------------------------------------------
(* SpecAlloc: the duration allocator on every image count, duration and cap *)

Caps == {max_duration_per_image, Seconds(3)}

AllocInit ==
    /\ alloc_images \in {ImageList(n) : n \in 1..MaxAllocImages}
    /\ alloc_duration \in 1..MaxAllocTicks
    /\ alloc_cap \in Caps
    /\ alloc_plan = NoPlan
    /\ IdleCue /\ IdleEnc /\ IdleJob /\ IdleSched /\ IdleTwo /\ IdleWeb

AllocateStep ==
    /\ alloc_plan = NoPlan
    /\ alloc_plan' = Allocate(alloc_images, alloc_duration, alloc_cap)
    /\ UNCHANGED <<alloc_images, alloc_duration, alloc_cap>>
    /\ UNCHANGED <<cueVars, encVars, jobVars, schedVars, twoVars, webVars>>

AllocNext == AllocateStep

SpecAlloc == AllocInit /\ [][AllocNext]_vars

-----------------------------------------------------------------------------
(* SpecCue: the cue generator on every narration and duration *)

Vocabulary == {"word", "secret"}

CueInit ==
    /\ cue_words \in UNION {[1..k -> Vocabulary] : k \in 0..MaxCueWords}
    /\ cue_duration \in 1..MaxCueTicks
    /\ cue_srt = NoCues
    /\ IdleAlloc /\ IdleEnc /\ IdleJob /\ IdleSched /\ IdleTwo /\ IdleWeb

CreateSubtitleStep ==
    /\ ~cue_srt.done
    /\ cue_srt' = [done |-> TRUE,
                   cues |-> create_subtitle_content(cue_words, cue_duration)]
    /\ UNCHANGED <<cue_words, cue_duration>>
    /\ UNCHANGED <<allocVars, encVars, jobVars, schedVars, twoVars, webVars>>

CueNext == CreateSubtitleStep

SpecCue == CueInit /\ [][CueNext]_vars

-----------------------------------------------------------------------------
(* SpecEnc: constructing the engine on every host *)

EncInit ==
    /\ enc_system \in Systems
    /\ enc_probe \in Probes
    /\ enc_state = "new"
    /\ enc_hw = NoEncoder
    /\ IdleAlloc /\ IdleCue /\ IdleJob /\ IdleSched /\ IdleTwo /\ IdleWeb

\* __init__: self.hw_encoder = self._detect_hardware_encoder(); an exception
\* leaving the probe would leave the constructor too
Construct ==
    /\ enc_state = "new"
    /\ LET hw == detect_hardware_encoder(enc_system, enc_probe)
       IN  IF hw = "<raised>"
           THEN enc_state' = "raised" /\ enc_hw' = enc_hw
           ELSE enc_state' = "constructed" /\ enc_hw' = hw
    /\ UNCHANGED <<enc_system, enc_probe>>
    /\ UNCHANGED <<allocVars, cueVars, jobVars, schedVars, twoVars, webVars>>

EncNext == Construct

SpecEnc == EncInit /\ [][EncNext]_vars

\* every value the probe can leave in self.hw_encoder
DetectResults == {detect_hardware_encoder(s, p) : s \in Systems, p \in Probes}

-----------------------------------------------------------------------------
(* Claims about the duration allocator *)

Abs(x) == IF x < 0 THEN -x ELSE x

Allocated == alloc_plan # NoPlan

SlotCount == Len(alloc_plan.image_paths)

\* C1: the slot durations sum to the audio duration within one frame (1/30 s)
\* and no slot lasts longer than the per-image cap.
C1_SumWithinFrameAndCap ==
    Allocated =>
        LET dur == alloc_plan.duration_per_image
        IN  /\ fps * Abs(SlotCount * dur.n - alloc_duration * dur.d)
                 <= Seconds(1) * dur.d
            /\ RLe(dur, Rat(alloc_cap, 1))

C1_Witness ==
    /\ Allocated
    /\ alloc_cap = max_duration_per_image
    /\ SlotCount > Len(alloc_images)

Cyclic ==
    \A i \in 1..SlotCount :
        alloc_plan.image_paths[i] = alloc_images[((i - 1) % Len(alloc_images)) + 1]

\* C2: N slots when D / N <= C, else exactly ceil(D / C) slots,
\* also when D is an exact multiple of C; slot i shows image i mod N.
C2_SlotsAreCeil ==
    Allocated =>
        /\ SlotCount =
             IF alloc_duration <= alloc_cap * Len(alloc_images)
             THEN Len(alloc_images)
             ELSE (alloc_duration + alloc_cap - 1) \div alloc_cap
        /\ Cyclic

\* What the allocator computes: N slots when D / N <= C, else the least
\* number of slots that is strictly greater than D / C (floor(D / C) + 1,
\* which is ceil(D / C) unless D is an exact multiple of C, and then
\* D / C + 1); slot i shows image i mod N.
SlotsAreFloorPlusOne ==
    Allocated =>
        /\ IF alloc_duration <= alloc_cap * Len(alloc_images)
           THEN SlotCount = Len(alloc_images)
           ELSE /\ SlotCount * alloc_cap > alloc_duration
                /\ (SlotCount - 1) * alloc_cap <= alloc_duration
        /\ Cyclic

-----------------------------------------------------------------------------
(* Claims about the caption cues *)

SrtMillis(ts) ==
    ts.hours * 3600000 + ts.minutes * 60000 + ts.secs * 1000 + ts.millisecs

\* C4: in the cues written, start <= end, no cue starts before the previous
\* one ends, and no cue ends after the audio duration.
C4_CuesOrderedWithinAudio ==
    cue_srt.done =>
        \A i \in 1..Len(cue_srt.cues) :
            LET cue == cue_srt.cues[i]
            IN  /\ SrtMillis(cue.start) <= SrtMillis(cue.end)
                /\ i > 1 => SrtMillis(cue_srt.cues[i - 1].end) <= SrtMillis(cue.start)
                /\ SrtMillis(cue.end) * Seconds(1) <= cue_duration * 1000

C4_Witness ==
    /\ cue_srt.done
    /\ Len(cue_srt.cues) >= 2
    /\ SrtMillis(cue_srt.cues[Len(cue_srt.cues)].end) * Seconds(1)
         = cue_duration * 1000

-----------------------------------------------------------------------------
(* Claims about the encoder probe *)

KnownFor(system) ==
    CASE system = "Darwin"  -> {"h264_videotoolbox"}
      [] system = "Linux"   -> {"h264_nvenc", "h264_vaapi"}
      [] system = "Windows" -> {"h264_nvenc", "h264_qsv"}
      [] OTHER              -> {}

ProbeUseless == enc_probe.raises \/ enc_probe.listed \cap KnownFor(enc_system) = {}

\* C5: the probe never raises; when it fails or lists no known hardware
\* encoder of the platform the result is the software fallback, and the
\* constructed engine always has a usable codec.
C5_ProbeNeverRaises ==
    /\ enc_state # "raised"
    /\ enc_state = "constructed" =>
         /\ ProbeUseless => (enc_hw = NoEncoder /\ Codec(enc_hw) = "libx264")
         /\ Codec(enc_hw) \in {"libx264"} \cup KnownFor(enc_system)

C5_Witness ==
    /\ enc_state = "constructed"
    /\ enc_probe.raises
    /\ enc_hw = NoEncoder

-----------------------------------------------------------------------------
(* Spec: one render job, create_video_with_ffmpeg, on a constructed engine *)

FileOutcomes == {"image", "other", "error"}

KeepImage_All(outcome) == TRUE

\* an image is kept when the output of 'file' names an image format, and also
\* when the check itself raises (the except branch appends it)
KeepImage(outcome) == outcome \in {"image", "error"}

RECURSIVE FilterValid(_, _, _)
\* the validation loop, from index i on
FilterValid(paths, results, i) ==
    IF i > Len(paths) THEN <<>>
    ELSE (IF KeepImage(results[i]) THEN <<paths[i]>> ELSE <<>>)
         \o FilterValid(paths, results, i + 1)

BaseNarration == <<"word", "one", "two", "three", "four", "five", "six">>

Narration(k) ==
    [i \in 1..k |-> IF i <= Len(BaseNarration) THEN BaseNarration[i] ELSE "secret"]

\* number of motion_types
MotionTypes == 7

BuildCmd_AudioFirst(p, hw) ==
    [image_inputs |-> p.image_paths,
     audio_input  |-> 0,
     map_audio    |-> 0,
     clips        |-> [i \in 1..Len(p.image_paths) |->
                         [input  |-> i,
                          frames |-> Frames(p.duration_per_image),
                          motion |-> (i - 1) % MotionTypes]],
     concat_n     |-> Len(p.image_paths),
     codec        |-> Codec(hw)]

\* the command line of the composition pass, lines 89-163
BuildCmd(p, hw) ==
    [image_inputs |-> p.image_paths,
     audio_input  |-> Len(p.image_paths),
     map_audio    |-> Len(p.image_paths),
     clips        |-> [i \in 1..Len(p.image_paths) |->
                         [input  |-> i - 1,
                          frames |-> Frames(p.duration_per_image),
                          motion |-> (i - 1) % MotionTypes]],
     concat_n     |-> Len(p.image_paths),
     codec        |-> Codec(hw)]

NoJobCmd ==
    [image_inputs |-> <<>>, audio_input |-> 0, map_audio |-> 0,
     clips |-> <<>>, concat_n |-> 0, codec |-> ""]

\* pc once the call has returned r
Ended(r) == IF r = "True" THEN "Done" ELSE "Failed"

Init ==
    /\ pc = "Planning"
    /\ image_paths \in {ImageList(n) : n \in 0..MaxImages}
    /\ file_result \in [1..Len(image_paths) -> FileOutcomes]
    /\ audio_duration \in {Seconds(s) : s \in 1..MaxSeconds}
    /\ script \in {NoScript} \cup {Narration(k) : k \in 0..MaxWords}
    /\ subtitles_path \in {"none", "missing", "exists"}
    /\ hw_encoder \in DetectResults
    /\ valid_images = <<>>
    /\ plan = NoPlan
    /\ cmd = NoJobCmd
    /\ compose_calls = 0
    /\ compose_exit = "none"
    /\ caption_calls = 0
    /\ caption_exit = "none"
    /\ temp_srt = FALSE
    /\ srt_file = <<>>
    /\ output_file = "absent"
    /\ captioned_file = FALSE
    /\ result = "pending"
    /\ IdleAlloc /\ IdleCue /\ IdleEnc /\ IdleSched /\ IdleTwo /\ IdleWeb

jobInputs == <<image_paths, file_result, audio_duration, script, subtitles_path,
               hw_encoder>>

\* lines 50-72: the empty list check and the validation loop
ValidateImages ==
    /\ pc = "Planning"
    /\ LET valid == IF image_paths = <<>> THEN <<>>
                    ELSE FilterValid(image_paths, file_result, 1)
       IN  /\ valid_images' = valid
           /\ IF valid = <<>>
              THEN result' = "False" /\ pc' = Ended("False")
              ELSE result' = result /\ pc' = "Allocating"
    /\ UNCHANGED <<plan, cmd, compose_calls, compose_exit, caption_calls,
                   caption_exit, temp_srt, srt_file, output_file, captioned_file>>
    /\ UNCHANGED <<jobInputs, allocVars, cueVars, encVars, schedVars, twoVars, webVars>>

\* lines 74-163: the plan and the command line
AllocatePlan ==
    /\ pc = "Allocating"
    /\ plan' = Allocate(valid_images, audio_duration, max_duration_per_image)
    /\ cmd' = BuildCmd(plan', hw_encoder)
    /\ pc' = "Composing"
    /\ UNCHANGED <<valid_images, compose_calls, compose_exit, caption_calls,
                   caption_exit, temp_srt, srt_file, output_file, captioned_file,
                   result>>
    /\ UNCHANGED <<jobInputs, allocVars, cueVars, encVars, schedVars, twoVars, webVars>>

ComposeOutcomes == {"exit0", "nonzero", "timeout", "exception"}

CompositionOk_NoExitCheck(how) == how \in {"exit0", "nonzero"}

\* subprocess.run returned and result.returncode == 0
CompositionOk(how) == how = "exit0"

ComposeFailurePc_Retry == "Composing"

\* a failed, timed-out or raising invocation is followed by 'return False'
\* (lines 189-193); the invocation of line 168 is not in a loop
ComposeFailurePc == Ended("False")

\* subtitles_path and subtitles_path.exists()
HasCallerSubtitles == subtitles_path = "exists"

\* script_data and script_data.get('script')
HasScript == script # NoScript

\* lines 168-193: the composition invocation and what follows it
RunComposition ==
    /\ pc = "Composing"
    /\ \E how \in ComposeOutcomes :
        /\ compose_calls' = compose_calls + 1
        /\ compose_exit' = how
        /\ IF CompositionOk(how)
           THEN /\ output_file' = "phase1"
                /\ IF HasCallerSubtitles \/ HasScript
                   THEN /\ pc' = "Captioning"
                        /\ UNCHANGED <<result, caption_exit>>
                   ELSE /\ result' = "True"
                        /\ pc' = Ended("True")
                        /\ caption_exit' = "skipped"
           ELSE /\ output_file' \in
                     (IF how = "exception" THEN {"absent"} ELSE {"absent", "partial"})
                /\ result' = "False"
                /\ pc' = ComposeFailurePc
                /\ UNCHANGED caption_exit
    /\ UNCHANGED <<valid_images, plan, cmd, caption_calls, temp_srt, srt_file,
                   captioned_file>>
    /\ UNCHANGED <<jobInputs, allocVars, cueVars, encVars, schedVars, twoVars, webVars>>

CaptionExceptionReturn_Propagate == "False"

\* except Exception: return True  (line 260)
CaptionExceptionReturn == "True"

\* lines 198-210: the cue file of _add_subtitles_to_video
PrepareCues ==
    /\ pc = "Captioning"
    /\ IF HasCallerSubtitles
       THEN /\ pc' = "BurnIn"
            /\ UNCHANGED <<temp_srt, srt_file, result, caption_exit>>
       ELSE LET srt_content == create_subtitle_content(script, audio_duration)
            IN  IF srt_content = <<>>
                THEN /\ result' = "True"
                     /\ pc' = Ended("True")
                     /\ caption_exit' = "skipped"
                     /\ UNCHANGED <<temp_srt, srt_file>>
                ELSE \/ /\ srt_file' = srt_content
                        /\ temp_srt' = TRUE
                        /\ pc' = "BurnIn"
                        /\ UNCHANGED <<result, caption_exit>>
                     \/ /\ result' = CaptionExceptionReturn
                        /\ pc' = Ended(result')
                        /\ caption_exit' = "exception"
                        /\ UNCHANGED <<temp_srt, srt_file>>
    /\ UNCHANGED <<valid_images, plan, cmd, compose_calls, compose_exit,
                   caption_calls, output_file, captioned_file>>
    /\ UNCHANGED <<jobInputs, allocVars, cueVars, encVars, schedVars, twoVars, webVars>>

BurnOutcomes == {"exit0", "nonzero", "timeout", "exception"}

BurnNonZeroReturn_Propagate == "False"

\* "Subtitle addition failed, keeping original": return True  (line 256)
BurnNonZeroReturn == "True"

\* return True after the captioned file has replaced the original (line 253)
CaptionedReturn == "True"

UnlinksCueFile_Always(ts) == TRUE

\* if temp_srt and srt_path.exists(): srt_path.unlink()  (lines 251-252)
UnlinksCueFile(ts) == ts

\* lines 212-260: the burn-in invocation and what follows it; srt_path is the
\* caller's file if there is one, the generated file otherwise
BurnIn ==
    /\ pc = "BurnIn"
    /\ \E how \in BurnOutcomes :
        /\ caption_calls' = caption_calls + 1
        /\ IF how = "exit0"
           THEN /\ output_file' = "captioned"
                /\ captioned_file' = FALSE
                /\ IF HasCallerSubtitles
                   THEN /\ subtitles_path' = IF UnlinksCueFile(temp_srt)
                                              THEN "missing" ELSE subtitles_path
                        /\ srt_file' = srt_file
                   ELSE /\ srt_file' = IF UnlinksCueFile(temp_srt)
                                        THEN <<>> ELSE srt_file
                        /\ subtitles_path' = subtitles_path
                /\ result' = CaptionedReturn
                /\ caption_exit' = "applied"
           ELSE /\ output_file' = output_file
                /\ captioned_file' \in (IF how = "exception" THEN {FALSE} ELSE BOOLEAN)
                /\ srt_file' = srt_file
                /\ subtitles_path' = subtitles_path
                /\ result' = IF how = "nonzero" THEN BurnNonZeroReturn
                             ELSE CaptionExceptionReturn
                /\ caption_exit' = how
        /\ pc' = Ended(result')
    /\ UNCHANGED <<valid_images, plan, cmd, compose_calls, compose_exit, temp_srt>>
    /\ UNCHANGED <<image_paths, file_result, audio_duration, script, hw_encoder>>
    /\ UNCHANGED <<allocVars, cueVars, encVars, schedVars, twoVars, webVars>>

Next ==
    \/ ValidateImages
    \/ AllocatePlan
    \/ RunComposition
    \/ PrepareCues
    \/ BurnIn

Spec == Init /\ [][Next]_vars

-----------------------------------------------------------------------------
(* Claims about the render job *)

Returned == pc \in {"Done", "Failed"}

\* no image of the caller's list passes the signature check (none at all
\* when the list is empty)
NoUsableImage ==
    \A i \in 1..Len(image_paths) : file_result[i] = "other"

\* C6: a job without any usable image fails, never invokes the encoder and
\* writes no output file.
C6_NoUsableImagesFails ==
    NoUsableImage =>
        /\ pc \in {"Planning", "Failed"}
        /\ Returned => result = "False"
        /\ compose_calls = 0
        /\ caption_calls = 0
        /\ output_file = "absent"
        /\ ~captioned_file
        /\ srt_file = <<>>

C6_Witness ==
    /\ pc = "Failed"
    /\ Len(image_paths) >= 2
    /\ NoUsableImage
    /\ result = "False"

BurnInFailed ==
    /\ Returned
    /\ compose_exit = "exit0"
    /\ caption_calls = 1
    /\ caption_exit \in {"nonzero", "timeout", "exception"}

Scenario8 ==
    /\ image_paths = ImageList(3)
    /\ \A i \in 1..3 : file_result[i] = "image"
    /\ audio_duration = Seconds(12)
    /\ script = <<"word", "one", "two", "three", "four", "five", "six">>
    /\ subtitles_path = "none"

SrtTime(millis) == seconds_to_srt_time(Rat(millis * Seconds(1), 1000))

Scenario8Plan ==
    /\ plan.image_paths = <<1, 2, 3>>
    /\ REq(plan.duration_per_image, Rat(Seconds(4), 1))

Scenario8Command ==
    /\ compose_calls = 1
    /\ cmd.image_inputs = <<1, 2, 3>>
    /\ cmd.audio_input = 3
    /\ cmd.map_audio = 3

\* C8 as claimed: 3 images, 12 s, the seven-word narration: 3 clips of 4 s,
\* exactly 2 cues of 3 words each covering 0-6 s and 6-12 s shifted by the
\* lead-in offset, one composition invocation with 3 images and the audio,
\* and the job ends Done, not partial.
C8_TwoCues ==
    Scenario8 =>
        /\ plan # NoPlan => Scenario8Plan
        /\ compose_exit # "none" => Scenario8Command
        /\ pc = "BurnIn" =>
             /\ Len(srt_file) = 2
             /\ \A i \in 1..Len(srt_file) : Len(srt_file[i].text) = 3
             /\ srt_file[1].start = SrtTime(200)
             /\ srt_file[1].end = SrtTime(6200)
             /\ srt_file[2].start = SrtTime(6200)
             /\ srt_file[2].end \in {SrtTime(12000), SrtTime(12200)}
        /\ (Returned /\ caption_exit = "applied") =>
             /\ pc = "Done"
             /\ result = "True"

\* C8 as amended: 3 clips of 4 s; the seven words give exactly 3 cues, of 3,
\* 3 and 1 words, at 0.2-4.2 s, 4.2-8.2 s and 8.2-12.0 s (the last end is
\* cut at the audio duration); one composition invocation with 3 images and
\* the audio; and when both encoder invocations exit 0 the job returns True
\* with the captioned render at the output path.
C8_ThreeCues ==
    Scenario8 =>
        /\ plan # NoPlan => Scenario8Plan
        /\ compose_exit # "none" => Scenario8Command
        /\ pc = "BurnIn" =>
             /\ Len(srt_file) = 3
             /\ srt_file[1].text = <<"word", "one", "two">>
             /\ srt_file[2].text = <<"three", "four", "five">>
             /\ srt_file[3].text = <<"six">>
             /\ srt_file[1].start = SrtTime(200)
             /\ srt_file[1].end = SrtTime(4200)
             /\ srt_file[2].start = SrtTime(4200)
             /\ srt_file[2].end = SrtTime(8200)
             /\ srt_file[3].start = SrtTime(8200)
             /\ srt_file[3].end = SrtTime(12000)
        /\ (Returned /\ caption_exit = "applied") =>
             /\ pc = "Done"
             /\ result = "True"
             /\ output_file = "captioned"
             /\ compose_calls = 1
             /\ caption_calls = 1

C8_Witness ==
    /\ Scenario8
    /\ pc = "Done"
    /\ caption_exit = "applied"
    /\ compose_calls = 1
    /\ caption_calls = 1

\* C9: the job reaches Failed only from Planning without a usable image or
\* from Composing with an encoder failure; once the composition pass has
\* succeeded no outcome of the caption phase makes the job return failure.
C9_FailedOnlyFromPlanningOrComposing ==
    /\ [][(pc' = "Failed" /\ pc # "Failed") =>
            \/ pc = "Planning" /\ valid_images' = <<>> /\ compose_calls' = 0
            \/ /\ pc = "Composing"
               /\ compose_exit' \in {"nonzero", "timeout", "exception"}]_vars
    /\ [](compose_exit = "exit0" => (pc # "Failed" /\ result # "False"))
    /\ [](Returned => (result = "False" <=> pc = "Failed"))

C9_Witness ==
    /\ pc = "Done"
    /\ compose_exit = "exit0"
    /\ caption_exit = "exception"
    /\ caption_calls = 1
    /\ result = "True"

CaptionPassStarted ==
    \/ pc \in {"Captioning", "BurnIn"}
    \/ caption_calls > 0
    \/ caption_exit \notin {"none", "skipped"}
    \/ srt_file # <<>>

\* C10: a composition invocation that exits non-zero or times out makes the
\* job return failure without the caption pass ever starting; the caption
\* pass starts only after the composition invocation returned exit code 0.
C10_CaptionOnlyAfterCompositionOk ==
    /\ compose_exit \in {"nonzero", "timeout"} =>
         /\ pc = "Failed"
         /\ result = "False"
         /\ ~CaptionPassStarted
    /\ CaptionPassStarted => compose_exit = "exit0"

C10_Witness ==
    /\ pc = "Failed"
    /\ compose_exit = "timeout"
    /\ compose_calls = 1
    /\ caption_calls = 0

\* C19: a job with at least one usable image invokes the composition encoder
\* exactly once, that one invocation takes every image of the plan followed by
\* the audio track as its inputs, and a failed, timed-out or raising invocation
\* ends the job: the encoder is never invoked a second time.
C19_ComposedExactlyOnce ==
    /\ compose_calls <= 1
    /\ (compose_calls = 1) =>
          /\ valid_images # <<>>
          /\ cmd.image_inputs = plan.image_paths
          /\ Len(cmd.image_inputs) >= Len(valid_images)
          /\ cmd.audio_input = Len(plan.image_paths)
          /\ cmd.concat_n = Len(plan.image_paths)
    /\ (Returned /\ valid_images # <<>>) => compose_calls = 1
    /\ (compose_exit \in {"nonzero", "timeout", "exception"}) =>
          Returned /\ result = "False" /\ compose_calls = 1

C19_Witness ==
    /\ Returned
    /\ compose_exit = "timeout"
    /\ compose_calls = 1
    /\ Len(cmd.image_inputs) >= 2

-----------------------------------------------------------------------------
(* The schedule registry: services/scheduler_service.py, SchedulerService  *)
(*                                                                         *)
(* self.schedules is a dict and keeps insertion order: it is the sequence  *)
(* of its values.  A schedule id f"{user_id}_{timestamp}" is the pair      *)
(* <<user_id, clock reading>>.  The scheduler's job store is the set of    *)
(* its jobs, each [id, hour, minute, timezone] (the cron trigger).  The     *)
(* fields config, created_at and next_run of a schedule are not modelled:  *)
(* no call reads them back.                                                *)

MaxSchedules == 2

Users == {"u1", "u2"}

\* what datetime.now().strftime('%Y%m%d%H%M%S%f') can answer; the clock is
\* read once per create_schedule call and need not have advanced between
\* two calls
ClockReadings == {"t1", "t2"}

ScheduleId(user_id, reading) == <<user_id, reading>>

ScheduleIds == {ScheduleId(u, r) : u \in Users, r \in ClockReadings}

IdsOf(scheds) == {scheds[i].id : i \in DOMAIN scheds}

\* an id that no create_schedule call returns
UnknownId == ScheduleId("u1", "never")

\* the ids a caller passes: those stored, and one that is not
CallerIds(scheds) == IdsOf(scheds) \cup {UnknownId}

\* the value None of an optional argument
None == "None"

\* the (schedule_time, timezone) pairs passed to create_schedule: valid ones,
\* an unknown timezone and an hour out of range
CreateArgs ==
    {<<"08:30", "UTC">>, <<"16:05", "Mars/Phobos">>, <<"25:00", "UTC">>}

\* the (schedule_time, timezone, active) triples passed to update_schedule
UpdateArgs ==
    {<<"16:05", "Europe/Paris", None>>, <<"08:30", "UTC", None>>,
     <<"25:00", "UTC", None>>, <<"16:05", "Mars/Phobos", "False">>,
     <<None, "Europe/Paris", "False">>, <<"08:30", None, None>>}

\* hour, minute = map(int, schedule_time.split(':'))
ParseTime(schedule_time) ==
    CASE schedule_time = "08:05" -> [hour |-> 8,  minute |-> 5]
      [] schedule_time = "08:30" -> [hour |-> 8,  minute |-> 30]
      [] schedule_time = "16:05" -> [hour |-> 16, minute |-> 5]
      [] schedule_time = "25:00" -> [hour |-> 25, minute |-> 0]

\* 0 <= hour < 24 and 0 <= minute < 60
ValidTime(t) == 0 <= t.hour /\ t.hour < 24 /\ 0 <= t.minute /\ t.minute < 60

\* pytz.timezone(timezone) does not raise
KnownTimezone(timezone) == timezone \in {"UTC", "Europe/Paris"}


\* self.schedules.get(schedule_id), for an id that is stored
Lookup(scheds, id) == scheds[CHOOSE i \in DOMAIN scheds : scheds[i].id = id]

\* self.schedules[schedule_id] = schedule: an existing key keeps its place
Store(scheds, schedule) ==
    IF schedule.id \in IdsOf(scheds)
    THEN [i \in DOMAIN scheds |->
            IF scheds[i].id = schedule.id THEN schedule ELSE scheds[i]]
    ELSE Append(scheds, schedule)

Without_All(scheds, id) == <<>>

RECURSIVE Without(_, _)
\* del self.schedules[schedule_id]
Without(scheds, id) ==
    IF scheds = <<>> THEN <<>>
    ELSE (IF Head(scheds).id = id THEN <<>> ELSE <<Head(scheds)>>)
         \o Without(Tail(scheds), id)

JobIds(js) == {j.id : j \in js}

RemoveJob_Missed(js, id) == js

\* self.scheduler.remove_job(schedule_id), a missing job being ignored
RemoveJob(js, id) == {j \in js : j.id # id}

\* _add_job_to_scheduler: add_job(..., replace_existing=True)
AddJob(js, schedule) ==
    RemoveJob(js, schedule.id) \cup
        {[id |-> schedule.id, hour |-> schedule.hour, minute |-> schedule.minute,
          timezone |-> schedule.timezone]}

\* the schedule object of create_schedule, lines 121-134
NewSchedule(id, user_id, schedule_time, t, timezone) ==
    [id |-> id, user_id |-> user_id, schedule_time |-> schedule_time,
     hour |-> t.hour, minute |-> t.minute, timezone |-> timezone,
     active |-> TRUE, last_run |-> "None",
     run_count |-> 0, last_result |-> "None"]

RECURSIVE LoadJobs(_, _, _)
\* the restore loop of _load_schedules: the jobs added from index i on, and
\* whether adding one raised
LoadJobs(scheds, i, js) ==
    IF i > Len(scheds) THEN [raised |-> FALSE, jobs |-> js]
    ELSE IF ~scheds[i].active THEN LoadJobs(scheds, i + 1, js)
    ELSE IF ~KnownTimezone(scheds[i].timezone) THEN [raised |-> TRUE, jobs |-> js]
    ELSE LoadJobs(scheds, i + 1, AddJob(js, scheds[i]))

\* a SchedulerService constructed over the storage file
LoadSchedules(file) ==
    LET restored == LoadJobs(file, 1, {})
    IN  [schedules |-> IF restored.raised THEN <<>> ELSE file,
         jobs      |-> restored.jobs]

SaveSchedules_Nothing(scheds) == <<>>

\* _save_schedules: json.dump(self.schedules, f)
SaveSchedules(scheds) == scheds

UpdatedJobs_KeepOld(js, schedule) ==
    IF schedule.active /\ schedule.id \notin JobIds(js)
    THEN AddJob(js, schedule)
    ELSE IF schedule.active THEN js ELSE RemoveJob(js, schedule.id)

\* lines 270-278: the old job is removed, a new one added if active
UpdatedJobs(js, schedule) ==
    IF schedule.active
    THEN AddJob(RemoveJob(js, schedule.id), schedule)
    ELSE RemoveJob(js, schedule.id)

\* update_schedule, lines 243-291: what the call leaves behind
UpdateSchedule(scheds, js, file, id, schedule_time, timezone, active) ==
    IF id \notin IdsOf(scheds)
    THEN [raised |-> TRUE, schedules |-> scheds, jobs |-> js, file |-> file]
    ELSE
    LET s0 == Lookup(scheds, id)
        t  == ParseTime(schedule_time)
        timeBad == schedule_time # None /\ ~ValidTime(t)
        s1 == IF schedule_time # None
              THEN [s0 EXCEPT !.schedule_time = schedule_time,
                              !.hour = t.hour, !.minute = t.minute]
              ELSE s0
        tzBad == timezone # None /\ ~KnownTimezone(timezone)
        s2 == IF timezone # None THEN [s1 EXCEPT !.timezone = timezone] ELSE s1
        s3 == IF active # None THEN [s2 EXCEPT !.active = (active = "True")] ELSE s2
        js3 == UpdatedJobs(js, s3)
    IN  IF timeBad
        THEN [raised |-> TRUE, schedules |-> scheds, jobs |-> js, file |-> file]
        ELSE IF tzBad
        THEN [raised |-> TRUE, schedules |-> Store(scheds, s1), jobs |-> js,
              file |-> file]
        ELSE [raised |-> FALSE,
              schedules |-> Store(scheds, s3),
              jobs |-> js3,
              file |-> SaveSchedules(Store(scheds, s3))]

ToggledActive_AlwaysOn(schedule) == TRUE

\* active = not schedule.get('active', True)  (line 327)
ToggledActive(schedule) == ~schedule.active

BoolArg(b) == IF b THEN "True" ELSE "False"

RECURSIVE InsertByTime(_, _)
\* x placed after every element whose (hour, minute) is not greater
InsertByTime(x, sorted) ==
    IF sorted = <<>> THEN <<x>>
    ELSE IF \/ Head(sorted).hour < x.hour
            \/ Head(sorted).hour = x.hour /\ Head(sorted).minute <= x.minute
         THEN <<Head(sorted)>> \o InsertByTime(x, Tail(sorted))
         ELSE <<x>> \o sorted

SortedByTime_Unsorted(scheds) == scheds

RECURSIVE SortedByTime(_)
\* sorted(user_schedules, key=lambda x: (x['hour'], x['minute'])): stable
SortedByTime(scheds) ==
    IF scheds = <<>> THEN <<>>
    ELSE InsertByTime(scheds[Len(scheds)],
                      SortedByTime(SubSeq(scheds, 1, Len(scheds) - 1)))

\* get_user_schedules, lines 218-225
get_user_schedules(scheds, user_id) ==
    SortedByTime(SelectSeq(scheds, LAMBDA x : x.user_id = user_id))

-----------------------------------------------------------------------------
(* Specification SpecSched: the calls made on one SchedulerService         *)
(*                                                                         *)
(* last_call records the call just made: op and args, the id it was about, *)
(* ok (it returned a schedule, a list or True, as opposed to raising or    *)
(* returning False), ret (the list get_user_schedules returned; the other  *)
(* calls return ok or the stored schedule itself) and, for a toggle, what  *)
(* the schedule was before the current run of toggles.                     *)

Call(op, id, args, ok) ==
    [op |-> op, id |-> id, args |-> args, ok |-> ok, ret |-> <<>>, before |-> <<>>]

SchedInit ==
    /\ schedules = <<>>
    /\ jobs = {}
    /\ storage_file = <<>>
    /\ last_call = NoCall
    /\ keys_valid = TRUE
    /\ IdleAlloc /\ IdleCue /\ IdleEnc /\ IdleJob /\ IdleTwo /\ IdleWeb

\* create_schedule, lines 92-151
CreateSchedule(user_id, schedule_time, timezone, reading) ==
    LET t      == ParseTime(schedule_time)
        tz     == IF KnownTimezone(timezone) THEN timezone ELSE "UTC"
        id     == ScheduleId(user_id, reading)
        sched  == NewSchedule(id, user_id, schedule_time, t, tz)
        js     == AddJob(jobs, sched)
        stored == Store(schedules, sched)
        args   == <<user_id, reading>>
    IN  IF ~ValidTime(t)
        THEN /\ last_call' = Call("create", <<>>, args, FALSE)
             /\ UNCHANGED <<schedules, jobs, storage_file>>
        ELSE /\ Len(schedules) < MaxSchedules \/ id \in IdsOf(schedules)
             /\ jobs' = js
             /\ storage_file' = SaveSchedules(stored)
             /\ schedules' = stored
             /\ last_call' = Call("create", id, args, TRUE)

\* update_schedule called by the API
UpdateScheduleCall(id, schedule_time, timezone, active) ==
    LET r == UpdateSchedule(schedules, jobs, storage_file, id, schedule_time,
                            timezone, active)
    IN  /\ schedules' = r.schedules
        /\ jobs' = r.jobs
        /\ storage_file' = r.file
        /\ last_call' = Call("update", id, <<schedule_time, timezone, active>>,
                             ~r.raised)

\* toggle_schedule, lines 316-329
ToggleSchedule(id, active) ==
    IF id \notin IdsOf(schedules)
    THEN /\ last_call' = Call("toggle", id, <<active>>, FALSE)
         /\ UNCHANGED <<schedules, jobs, storage_file>>
    ELSE
    LET s0 == Lookup(schedules, id)
        a  == IF active = None THEN BoolArg(ToggledActive(s0)) ELSE active
        r  == UpdateSchedule(schedules, jobs, storage_file, id, None, None, a)
        second == /\ active = None
                  /\ last_call.op = "toggle" /\ last_call.ok
                  /\ last_call.id = id /\ last_call.args = <<None>>
                  /\ last_call.before.n = 1
    IN  /\ schedules' = r.schedules
        /\ jobs' = r.jobs
        /\ storage_file' = r.file
        /\ last_call' =
             [Call("toggle", id, <<active>>, ~r.raised) EXCEPT !.before =
                IF second THEN [last_call.before EXCEPT !.n = 2]
                ELSE [n |-> 1, active |-> s0.active, job |-> id \in JobIds(jobs)]]

\* delete_schedule, lines 293-314
DeleteSchedule(id) ==
    IF id \notin IdsOf(schedules)
    THEN /\ last_call' = Call("delete", id, <<>>, FALSE)
         /\ UNCHANGED <<schedules, jobs, storage_file>>
    ELSE /\ jobs' = RemoveJob(jobs, id)
         /\ schedules' = Without(schedules, id)
         /\ storage_file' = SaveSchedules(schedules')
         /\ last_call' = Call("delete", id, <<>>, TRUE)

\* the process ends and a new SchedulerService() is constructed, lines 23-62
Restart ==
    LET loaded == LoadSchedules(storage_file)
    IN  /\ schedules' = loaded.schedules
        /\ jobs' = loaded.jobs
        /\ last_call' = Call("restart", <<>>, <<>>, TRUE)
        /\ UNCHANGED storage_file

SchedFrame == UNCHANGED <<keys_valid, allocVars, cueVars, encVars, jobVars, twoVars, webVars>>

SchedNext ==
    \/ \E u \in Users, a \in CreateArgs, r \in ClockReadings :
          CreateSchedule(u, a[1], a[2], r) /\ SchedFrame
    \/ \E id \in CallerIds(schedules), a \in UpdateArgs :
          UpdateScheduleCall(id, a[1], a[2], a[3]) /\ SchedFrame
    \/ \E id \in CallerIds(schedules), a \in {None, "True", "False"} :
          ToggleSchedule(id, a) /\ SchedFrame
    \/ \E id \in CallerIds(schedules) : DeleteSchedule(id) /\ SchedFrame
    \/ Restart /\ SchedFrame

SpecSched == SchedInit /\ [][SchedNext]_vars

-----------------------------------------------------------------------------
(* Claims about the schedule registry *)

ActiveIds(scheds) == {scheds[i].id : i \in {k \in DOMAIN scheds : scheds[k].active}}

\* C11: after any sequence of create_schedule, update_schedule,
\* toggle_schedule and delete_schedule calls (and restarts), the ids of the
\* jobs registered in the scheduler are exactly the ids of the stored
\* schedules whose active flag is true.
C11_JobsAreActiveSchedules == JobIds(jobs) = ActiveIds(schedules)

C11_Witness ==
    /\ last_call.op = "delete" /\ last_call.ok
    /\ Len(schedules) = 1
    /\ ~schedules[1].active
    /\ jobs = {}

\* the fields of a schedule that a restart is said to keep
Persisted(scheds) ==
    [i \in DOMAIN scheds |->
        [id |-> scheds[i].id, user_id |-> scheds[i].user_id,
         schedule_time |-> scheds[i].schedule_time,
         timezone |-> scheds[i].timezone, active |-> scheds[i].active]]

\* the call just made changed the registry and returned (a schedule, or True)
Committed == last_call.op \in {"create", "update", "toggle", "delete"} /\ last_call.ok

C13_ToggleFlips ==
    (last_call.op = "toggle" /\ last_call.ok /\ last_call.args = <<None>>) =>
        LET s == Lookup(schedules, last_call.id)
            b == last_call.before
            hasJob == last_call.id \in JobIds(jobs)
        IN  /\ hasJob = s.active
            /\ (b.n = 1) => s.active = ~b.active
            /\ (b.n = 2) => s.active = b.active /\ hasJob = b.job

C13_Witness ==
    /\ last_call.op = "toggle" /\ last_call.ok /\ last_call.args = <<None>>
    /\ last_call.before.n = 2
    /\ last_call.before.active /\ last_call.before.job
    /\ Len(schedules) = 2

\* the step just taken was a delete_schedule call
DeleteStep == last_call'.op = "delete"

\* C14: delete_schedule on a stored id returns True, removes that schedule and
\* no other (one schedule fewer, the others unchanged and in the same order)
\* and removes its job and no other; on an unknown id it returns False and
\* changes neither the stored schedules nor the registered jobs.
C14_DeleteRemovesExactlyOne ==
    [][DeleteStep =>
        LET id == last_call'.id
        IN  IF id \in IdsOf(schedules)
            THEN /\ last_call'.ok
                 /\ Len(schedules') = Len(schedules) - 1
                 /\ id \notin IdsOf(schedules')
                 /\ schedules' = SelectSeq(schedules, LAMBDA x : x.id # id)
                 /\ jobs' = {j \in jobs : j.id # id}
                 /\ id \notin JobIds(jobs')
            ELSE /\ ~last_call'.ok
                 /\ schedules' = schedules
                 /\ jobs' = jobs]_vars

C14_Witness ==
    /\ last_call.op = "delete" /\ last_call.ok
    /\ Len(schedules) = 1
    /\ schedules[1].active
    /\ JobIds(jobs) = {schedules[1].id}
    /\ storage_file = schedules

\* C15: update_schedule given a valid time and a known timezone for a stored
\* schedule returns it with schedule_time, hour, minute and timezone set to
\* the new values, and if the schedule is active its one registered job has
\* the new hour, minute and timezone as its trigger.
C15_UpdateSetsTimeAndZone ==
    ( /\ last_call.op = "update" /\ last_call.ok
      /\ last_call.args[1] # None /\ last_call.args[2] # None ) =>
        LET s == Lookup(schedules, last_call.id)
            t == ParseTime(last_call.args[1])
        IN  /\ s.schedule_time = last_call.args[1]
            /\ s.hour = t.hour /\ s.minute = t.minute
            /\ s.timezone = last_call.args[2]
            /\ s.active =>
                 {j \in jobs : j.id = s.id} =
                     {[id |-> s.id, hour |-> t.hour, minute |-> t.minute,
                       timezone |-> last_call.args[2]]}

C15_Witness ==
    /\ last_call.op = "update" /\ last_call.ok
    /\ last_call.args = <<"16:05", "Europe/Paris", None>>
    /\ Lookup(schedules, last_call.id).active
    /\ [id |-> last_call.id, hour |-> 16, minute |-> 5,
        timezone |-> "Europe/Paris"] \in jobs

\* the step just taken was a create_schedule call that returned
CreateReturned == last_call'.op = "create" /\ last_call'.ok

\* C18: every create_schedule call that returns produces an id that was not
\* stored before, also when the same user calls it at the same clock reading:
\* the call adds one schedule and one job and overwrites nothing.
C18_CreateNeverReusesAnId ==
    [][CreateReturned =>
        /\ last_call'.id \notin IdsOf(schedules)
        /\ Len(schedules') = Len(schedules) + 1
        /\ Cardinality(jobs') = Cardinality(jobs) + 1
        /\ \A i \in DOMAIN schedules : schedules'[i] = schedules[i]]_vars

\* a create_schedule call by another user, or at another clock reading, adds
\* one schedule and one job and leaves the stored ones as they were
CreateWithFreshIdAdds ==
    [][(CreateReturned /\ last_call'.id \notin IdsOf(schedules)) =>
        /\ Len(schedules') = Len(schedules) + 1
        /\ Cardinality(jobs') = Cardinality(jobs) + 1
        /\ \A i \in DOMAIN schedules : schedules'[i] = schedules[i]]_vars

-----------------------------------------------------------------------------
(* Specification SpecList: get_user_schedules applied to a registry        *)

MaxListed == 3

ListTimes == {"08:05", "08:30", "16:05"}

\* the registries left by n create_schedule calls that returned distinct ids
Created(n) ==
    {[i \in 1..n |-> NewSchedule(c[i][1], c[i][1][1], c[i][2], ParseTime(c[i][2]), "UTC")] :
        c \in {f \in [1..n -> ScheduleIds \X ListTimes] :
                 \A i, j \in 1..n : i # j => f[i][1] # f[j][1]}}

RECURSIVE JobsOf(_, _)
\* the jobs of the schedules from index i on
JobsOf(scheds, i) ==
    IF i > Len(scheds) THEN {} ELSE AddJob(JobsOf(scheds, i + 1), scheds[i])

ListInit ==
    /\ schedules \in UNION {Created(n) : n \in 0..MaxListed}
    /\ jobs = JobsOf(schedules, 1)
    /\ storage_file = SaveSchedules(schedules)
    /\ last_call = NoCall
    /\ keys_valid = TRUE
    /\ IdleAlloc /\ IdleCue /\ IdleEnc /\ IdleJob /\ IdleTwo /\ IdleWeb

\* get_user_schedules called by the API
GetUserSchedules(user_id) ==
    /\ last_call' = [Call("list", <<>>, <<user_id>>, TRUE) EXCEPT
                        !.ret = get_user_schedules(schedules, user_id)]
    /\ UNCHANGED <<schedules, jobs, storage_file>>
    /\ SchedFrame

ListNext == \E u \in Users : GetUserSchedules(u)

SpecList == ListInit /\ [][ListNext]_vars

\* (hour, minute) of a is not after that of b
NotAfter(a, b) == a.hour < b.hour \/ (a.hour = b.hour /\ a.minute <= b.minute)

\* C16: get_user_schedules(u) returns each stored schedule whose user_id is u
\* once, and nothing else (an empty list for a user without schedules, never
\* a schedule of another user), in ascending order of (hour, minute).
C16_ListIsUsersSortedByTime ==
    (last_call.op = "list") =>
        LET u == last_call.args[1]
            r == last_call.ret
            mine == {k \in DOMAIN schedules : schedules[k].user_id = u}
        IN  /\ Len(r) = Cardinality(mine)
            /\ \A k \in mine : \E i \in DOMAIN r : r[i] = schedules[k]
            /\ \A i \in DOMAIN r : r[i].user_id = u
            /\ \A i, j \in DOMAIN r : i < j => NotAfter(r[i], r[j])

C16_Witness ==
    /\ last_call.op = "list" /\ last_call.args = <<"u1">>
    /\ Len(schedules) = 3
    /\ schedules[1].user_id = "u1" /\ schedules[1].schedule_time = "08:30"
    /\ schedules[2].user_id = "u2"
    /\ schedules[3].user_id = "u1" /\ schedules[3].schedule_time = "08:05"
    /\ last_call.ret = <<schedules[3], schedules[1]>>

-----------------------------------------------------------------------------
(* Specification SpecRun: the scheduler fires the jobs of a registry and   *)
(* _run_scheduled_automation runs main() for them.  main() (src/main.py)   *)
(* returns the video path, or leaves through sys.exit, which raises        *)
(* SystemExit; an exception raised before its try block leaves it as an    *)
(* Exception.                                                              *)

MaxRuns == 2

\* how a call of main() can end, given what validate_api_keys() answers
MainOutcomes(keys) ==
    IF keys THEN {"returned", "exit", "raised"} ELSE {"exit"}

\* the registries a service holds once constructed over a storage file:
\* schedules created at 08:30 UTC, some of them switched off
Registries ==
    UNION {{[i \in DOMAIN c |-> [c[i] EXCEPT !.active = a[i]]] :
               a \in [DOMAIN c -> BOOLEAN]} :
           c \in {r \in UNION {Created(n) : n \in 1..MaxSchedules} :
                    \A i \in DOMAIN r : r[i].schedule_time = "08:30"}}

RunInit ==
    /\ keys_valid \in BOOLEAN
    /\ storage_file \in Registries
    /\ schedules = LoadSchedules(storage_file).schedules
    /\ jobs = LoadSchedules(storage_file).jobs
    /\ last_call = NoCall
    /\ IdleAlloc /\ IdleCue /\ IdleEnc /\ IdleJob /\ IdleTwo /\ IdleWeb

RunFrame == UNCHANGED <<keys_valid, allocVars, cueVars, encVars, jobVars, twoVars, webVars>>

\* the trigger time of a registered job is reached: the scheduler calls
\* _run_scheduled_automation(schedule_id); one run at a time
Trigger(id) ==
    /\ last_call.op # "trigger"
    /\ id \in JobIds(jobs)
    /\ id \in IdsOf(schedules) => Lookup(schedules, id).run_count < MaxRuns
    /\ last_call' = [Call("trigger", id, <<>>, TRUE) EXCEPT !.before =
                        IF id \in IdsOf(schedules)
                        THEN Lookup(schedules, id).run_count ELSE 0]
    /\ UNCHANGED <<schedules, jobs, storage_file>>
    /\ RunFrame

\* 'success' if result else 'failed': main() returns a path
LastResult(outcome) == IF outcome = "returned" THEN "success" ELSE "error"

\* _run_scheduled_automation, lines 179-216
RunScheduledAutomation(outcome) ==
    /\ last_call.op = "trigger"
    /\ outcome \in MainOutcomes(keys_valid)
    /\ LET id == last_call.id
       IN  IF id \notin IdsOf(schedules) \/ outcome = "exit"
           THEN UNCHANGED <<schedules, storage_file>>
           ELSE LET s == Lookup(schedules, id)
                    done == IF outcome = "returned"
                            THEN [s EXCEPT !.last_run = "set",
                                           !.run_count = s.run_count + 1,
                                           !.last_result = LastResult(outcome)]
                            ELSE [s EXCEPT !.last_result = LastResult(outcome)]
                IN  /\ schedules' = Store(schedules, done)
                    /\ storage_file' = SaveSchedules(schedules')
    /\ last_call' = [last_call EXCEPT !.op = "run", !.args = <<outcome>>,
                                      !.ok = (outcome = "returned")]
    /\ UNCHANGED jobs
    /\ RunFrame

RunNext ==
    \/ \E id \in ScheduleIds : Trigger(id)
    \/ \E outcome \in {"returned", "exit", "raised"} : RunScheduledAutomation(outcome)

SpecRun == RunInit /\ [][RunNext]_vars

\* a run that was started ends, and a job whose time comes again is fired again
SpecRunFair ==
    /\ SpecRun
    /\ WF_vars(\E outcome \in {"returned", "exit", "raised"} :
                  RunScheduledAutomation(outcome))
    /\ \A id \in ScheduleIds : WF_vars(Trigger(id))

\* the job of schedule id was fired when its run_count was n
Triggered(id, n) ==
    /\ last_call.op = "trigger" /\ last_call.id = id /\ last_call.before = n

\* schedule id has been run more than n times and says when and how
Counted(id, n) ==
    /\ id \in IdsOf(schedules)
    /\ Lookup(schedules, id).run_count > n
    /\ Lookup(schedules, id).last_run # "None"
    /\ Lookup(schedules, id).last_result # "None"

\* C17: once the trigger time of an active schedule is reached, its
\* run_count eventually becomes greater than it was before the trigger, with
\* last_run and last_result set.
C17_TriggeredRunIsCounted ==
    \A id \in ScheduleIds : \A n \in 0..(MaxRuns - 1) :
        Triggered(id, n) ~> Counted(id, n)

\* a run in which main() returned has been counted when the handler ends
ReturnedRunIsCounted ==
    (last_call.op = "run" /\ last_call.args = <<"returned">>) =>
        /\ Counted(last_call.id, last_call.before)
        /\ Lookup(schedules, last_call.id).run_count = last_call.before + 1
        /\ Lookup(schedules, last_call.id).last_result = "success"
        /\ storage_file = schedules

-----------------------------------------------------------------------------
(* Specification SpecTwoJobs: the caption passes of two render jobs that   *)
(* run at the same time over one TEMP_DIR, each generating its cue file    *)
(* (_add_subtitles_to_video called without srt_path).  A file of TEMP_DIR  *)
(* is [path, owner]: its name and the job whose cues it holds.             *)

MaxClock == 3

RenderJobs == {"job1", "job2"}

Other(j) == CHOOSE k \in RenderJobs : k # j

\* f"subtitles_{int(time.time())}.srt"  (line 207)
CuePath(clock) == <<"subtitles_", clock, ".srt">>

NoPath == <<>>

TwoInit ==
    /\ tj_pc = [j \in RenderJobs |-> "Captioning"]
    /\ tj_srt_path = [j \in RenderJobs |-> NoPath]
    /\ tj_clock = 1
    /\ temp_dir = {}
    /\ tj_clobbered = [j \in RenderJobs |-> FALSE]
    /\ IdleAlloc /\ IdleCue /\ IdleEnc /\ IdleJob /\ IdleSched /\ IdleWeb

TwoFrame == UNCHANGED <<allocVars, cueVars, encVars, jobVars, schedVars, webVars>>

\* the encoder of job k is reading the file at path
Reading(k, path) == tj_pc[k] = "Burning" /\ tj_srt_path[k] = path

\* time.time() moves on to the next second
Tick ==
    /\ tj_clock < MaxClock
    /\ tj_clock' = tj_clock + 1
    /\ UNCHANGED <<tj_pc, tj_srt_path, temp_dir, tj_clobbered>>
    /\ TwoFrame

\* lines 199-245: the cue file is written and the burn-in encoder started
WriteCues(j) ==
    /\ tj_pc[j] = "Captioning"
    /\ LET path == CuePath(tj_clock)
       IN  /\ tj_srt_path' = [tj_srt_path EXCEPT ![j] = path]
           /\ temp_dir' = {f \in temp_dir : f.path # path} \cup
                              {[path |-> path, owner |-> j]}
           /\ tj_clobbered' =
                [tj_clobbered EXCEPT ![Other(j)] = @ \/ Reading(Other(j), path)]
    /\ tj_pc' = [tj_pc EXCEPT ![j] = "Burning"]
    /\ UNCHANGED tj_clock
    /\ TwoFrame

\* lines 245-260: the burn-in encoder ends; after exit code 0 the cue file is
\* unlinked if it exists
EndBurnIn(j, how) ==
    /\ tj_pc[j] = "Burning"
    /\ IF how = "exit0"
       THEN /\ temp_dir' = {f \in temp_dir : f.path # tj_srt_path[j]}
            /\ tj_clobbered' =
                 [tj_clobbered EXCEPT ![Other(j)] =
                    @ \/ ( /\ Reading(Other(j), tj_srt_path[j])
                           /\ \E f \in temp_dir : f.path = tj_srt_path[j] )]
       ELSE UNCHANGED <<temp_dir, tj_clobbered>>
    /\ tj_pc' = [tj_pc EXCEPT ![j] = "Done"]
    /\ UNCHANGED <<tj_srt_path, tj_clock>>
    /\ TwoFrame

TwoNext ==
    \/ Tick
    \/ \E j \in RenderJobs : WriteCues(j)
    \/ \E j \in RenderJobs, how \in BurnOutcomes : EndBurnIn(j, how)

SpecTwoJobs == TwoInit /\ [][TwoNext]_vars

\* C20: two render jobs that run at the same time over one temp directory
\* never use the same path for their generated cue files, so that neither
\* overwrites or deletes the cue file the other's burn-in encoder is reading.
C20_CuePathsAreJobUnique ==
    /\ \A j \in RenderJobs :
         (tj_pc[j] = "Burning" /\ tj_pc[Other(j)] = "Burning") =>
             tj_srt_path[j] # tj_srt_path[Other(j)]
    /\ \A j \in RenderJobs : ~tj_clobbered[j]

\* jobs whose cue files are written in different seconds do not meet
CuePathsDifferAcrossSeconds ==
    \A j \in RenderJobs :
        tj_clobbered[j] => tj_srt_path[j] = tj_srt_path[Other(j)]

-----------------------------------------------------------------------------
(* Further claims about the render job *)

\* the burn-in encoder was run on the caller's subtitle file
BurnedCallerSubtitles == caption_calls = 1 /\ ~temp_srt

\* C28: a subtitle file supplied by the caller still exists after the job,
\* whether the burn-in pass succeeded or failed; the engine unlinks only a
\* cue file it generated itself.
C28_CallerSubtitlesKept ==
    BurnedCallerSubtitles => subtitles_path = "exists" /\ srt_file = <<>>

C28_Witness ==
    /\ Returned
    /\ BurnedCallerSubtitles
    /\ caption_exit = "applied"
    /\ subtitles_path = "exists"
    /\ output_file = "captioned"

\* C21: a cue file that the engine generated in the temp directory no longer
\* exists when the job ends, whether the burn-in pass succeeded, exited
\* non-zero, timed out or raised.
C21_GeneratedCueFileRemoved ==
    (Returned /\ temp_srt) => srt_file = <<>>

\* the generated cue file is gone after a burn-in pass that exited 0
CueFileRemovedAfterAppliedCaptions ==
    (Returned /\ temp_srt /\ caption_exit = "applied") => srt_file = <<>>

\* the command line has been built
CommandBuilt == cmd # NoJobCmd

\* the signature check of image img confirmed an image
CheckConfirmed(img) == file_result[img] = "image"

RangeOf(seq) == {seq[i] : i \in DOMAIN seq}

\* C22: every image passed to the encoder has passed the signature check (an
\* image whose check errors or times out is dropped like one the check
\* rejects), and the job proceeds if and only if an image that passed remains.
C22_OnlyConfirmedImagesEncoded ==
    /\ CommandBuilt => \A img \in RangeOf(cmd.image_inputs) : CheckConfirmed(img)
    /\ (pc # "Planning") =>
         ( (pc = "Failed" /\ compose_calls = 0)
             <=> ~(\E img \in RangeOf(image_paths) : CheckConfirmed(img)) )

\* every image passed to the encoder was confirmed by the check or is one
\* whose check raised; the job proceeds if and only if there is such an image
ConfirmedOrUncheckedImagesEncoded ==
    /\ CommandBuilt =>
         RangeOf(cmd.image_inputs) =
             {img \in RangeOf(image_paths) : file_result[img] \in {"image", "error"}}
    /\ (pc # "Planning") =>
         ( (pc = "Failed" /\ compose_calls = 0)
             <=> ~(\E img \in RangeOf(image_paths) :
                      file_result[img] \in {"image", "error"}) )

\* concat_inputs of line 134: position k of the concatenation takes the
\* stream [v(k-1)], which line 130 builds from input k-1
ConcatInputs(c) == [k \in 1..c.concat_n |-> k - 1]

\* seq keeps the order of the caller's list (image ids are list positions)
InCallerOrder(seq) == \A i, j \in DOMAIN seq : i < j => seq[i] < seq[j]

\* C23: the clips are concatenated in slot order 0..n-1, slot i is built from
\* encoder input i, the inputs are the valid images in the order of the
\* caller's list, repeated cyclically, and the audio is mapped from the input
\* whose index is the number of image inputs.
C23_SlotsFollowCallerOrder ==
    CommandBuilt =>
        LET n == Len(cmd.image_inputs)
            N == Len(valid_images)
        IN  /\ cmd.concat_n = n /\ Len(cmd.clips) = n
            /\ \A k \in 1..n :
                 /\ ConcatInputs(cmd)[k] = k - 1
                 /\ cmd.clips[k].input = k - 1
                 /\ cmd.image_inputs[k] = valid_images[((k - 1) % N) + 1]
            /\ InCallerOrder(valid_images)
            /\ \A k \in 1..N : valid_images[k] \in RangeOf(image_paths)
            /\ cmd.audio_input = n /\ cmd.map_audio = n

C23_Witness ==
    /\ CommandBuilt
    /\ image_paths = <<1, 2, 3>>
    /\ file_result = <<"image", "other", "image">>
    /\ cmd.image_inputs = <<1, 3, 1, 3>>
    /\ cmd.map_audio = 4

-----------------------------------------------------------------------------
(* A further claim about the allocator *)

\* the frames of the video: every slot has int(duration_per_image * 30)
TotalFrames == SlotCount * Frames(alloc_plan.duration_per_image)

\* C24: the video built from the plan covers the audio: the frame counts of
\* the slots, summed and divided by 30, are at least the audio duration minus
\* one frame duration.
C24_VideoCoversAudio ==
    Allocated => TotalFrames * Seconds(1) >= alloc_duration * fps - Seconds(1)

\* the video is never longer than the audio and is shorter by less than one
\* frame per slot
VideoShortByLessThanOneFramePerSlot ==
    Allocated =>
        /\ TotalFrames * Seconds(1) <= alloc_duration * fps
        /\ TotalFrames * Seconds(1) > alloc_duration * fps - SlotCount * Seconds(1)

-----------------------------------------------------------------------------
(* Further claims about the render job, continued *)

\* C25: when a job ends only one generation of the render is on disk, at the
\* output path: the captioned render after a successful burn-in, the phase-1
\* render after a failed one, and in both cases no '_captioned' file.
C25_OneGenerationOnDisk ==
    (Returned /\ compose_exit = "exit0") =>
        /\ ~captioned_file
        /\ (caption_exit = "applied") => output_file = "captioned"
        /\ BurnInFailed => output_file = "phase1"

\* the render at the output path is the captioned one after a successful
\* burn-in, with the intermediate file moved onto it, and the phase-1 render
\* after a failed one
OutputIsLatestCompleteRender ==
    (Returned /\ compose_exit = "exit0") =>
        /\ (caption_exit = "applied") => output_file = "captioned" /\ ~captioned_file
        /\ BurnInFailed => output_file = "phase1"
        /\ (captioned_file => caption_exit \in {"nonzero", "timeout"})

(***************************************************************************)
(* Specification SpecTwoRuns: two runs of the pipeline (main.py main) that *)
(* overlap, as two schedules firing close together do.  Each run keeps its *)
(* audio track and its cue file in TEMP_DIR under names of its own         *)
(* (generate_filename: topic and timestamp) and ends with                  *)
(* cleanup_temp_files, which removes the whole of TEMP_DIR.                *)
(***************************************************************************)

\* main.py line 144: config.TEMP_DIR / generate_filename(topic_query, "mp3")
AudioPath(j) == <<"audio", j, ".mp3">>

\* voiceover_service.py line 127: audio_path.with_suffix(".srt")
SubtitlesPath(j) == <<"audio", j, ".srt">>

InTempDir(path) == \E f \in temp_dir : f.path = path

\* the files of TEMP_DIR that run j has created and has yet to read
StillNeeded(j) ==
    (IF tj_pc[j] \in {"Subtitles", "Composing"} THEN {AudioPath(j)} ELSE {}) \cup
    (IF tj_pc[j] \in {"Composing", "Burning"} /\ tj_srt_path[j] # NoPath
     THEN {tj_srt_path[j]} ELSE {})

TwoRunsInit ==
    /\ tj_pc = [j \in RenderJobs |-> "Voiceover"]
    /\ tj_srt_path = [j \in RenderJobs |-> NoPath]
    /\ tj_clock = 1
    /\ temp_dir = {}
    /\ tj_clobbered = [j \in RenderJobs |-> FALSE]
    /\ IdleAlloc /\ IdleCue /\ IdleEnc /\ IdleJob /\ IdleSched /\ IdleWeb

\* scheduler_service.py lines 191-199: the schedule fires again and main()
\* starts a new run
StartRun(j) ==
    /\ tj_pc[j] \in {"Cleaned", "Exited"}
    /\ tj_pc' = [tj_pc EXCEPT ![j] = "Voiceover"]
    /\ tj_srt_path' = [tj_srt_path EXCEPT ![j] = NoPath]
    /\ UNCHANGED <<tj_clock, temp_dir, tj_clobbered>>
    /\ TwoFrame

\* main.py lines 141-153: the voiceover is written, or the run exits
GenerateVoiceover(j, success) ==
    /\ tj_pc[j] = "Voiceover"
    /\ IF success
       THEN /\ temp_dir' = {f \in temp_dir : f.path # AudioPath(j)} \cup
                               {[path |-> AudioPath(j), owner |-> j]}
            /\ tj_pc' = [tj_pc EXCEPT ![j] = "Subtitles"]
       ELSE /\ temp_dir' = temp_dir
            /\ tj_pc' = [tj_pc EXCEPT ![j] = "Exited"]
    /\ UNCHANGED <<tj_srt_path, tj_clock, tj_clobbered>>
    /\ TwoFrame

\* main.py line 161, voiceover_service.py lines 117-136: the audio is opened
\* and the transcript written beside it; any error gives None
GenerateSubtitles(j) ==
    /\ tj_pc[j] = "Subtitles"
    /\ IF InTempDir(AudioPath(j))
       THEN /\ temp_dir' = {f \in temp_dir : f.path # SubtitlesPath(j)} \cup
                               {[path |-> SubtitlesPath(j), owner |-> j]}
            /\ tj_srt_path' = [tj_srt_path EXCEPT ![j] = SubtitlesPath(j)]
       ELSE /\ temp_dir' = temp_dir
            /\ tj_srt_path' = [tj_srt_path EXCEPT ![j] = NoPath]
    /\ tj_pc' = [tj_pc EXCEPT ![j] = "Composing"]
    /\ UNCHANGED <<tj_clock, tj_clobbered>>
    /\ TwoFrame

\* main.py lines 187-194, 236-238: the composition pass reads the audio
\* track; without it the encoder fails and the run exits
ComposeVideo(j) ==
    /\ tj_pc[j] = "Composing"
    /\ tj_pc' = [tj_pc EXCEPT ![j] =
                    IF InTempDir(AudioPath(j)) THEN "Burning" ELSE "Exited"]
    /\ UNCHANGED <<tj_srt_path, tj_clock, temp_dir, tj_clobbered>>
    /\ TwoFrame

\* simple_video_service.py lines 245-260: the caption pass ends; the cue file
\* is the caller's, so it is left in place
BurnSubtitles(j) ==
    /\ tj_pc[j] = "Burning"
    /\ tj_pc' = [tj_pc EXCEPT ![j] = "Finishing"]
    /\ UNCHANGED <<tj_srt_path, tj_clock, temp_dir, tj_clobbered>>
    /\ TwoFrame

\* main.py line 325, helpers.py lines 55-57: shutil.rmtree(config.TEMP_DIR),
\* then an empty TEMP_DIR is made again
cleanup_temp_files(j) ==
    /\ tj_pc[j] = "Finishing"
    /\ temp_dir' = {}
    /\ tj_clobbered' =
         [k \in RenderJobs |->
            tj_clobbered[k] \/
              (k # j /\ \E f \in temp_dir : f.owner = k /\ f.path \in StillNeeded(k))]
    /\ tj_pc' = [tj_pc EXCEPT ![j] = "Cleaned"]
    /\ UNCHANGED <<tj_srt_path, tj_clock>>
    /\ TwoFrame

TwoRunsNext ==
    \/ \E j \in RenderJobs : StartRun(j)
    \/ \E j \in RenderJobs, success \in BOOLEAN : GenerateVoiceover(j, success)
    \/ \E j \in RenderJobs : GenerateSubtitles(j)
    \/ \E j \in RenderJobs : ComposeVideo(j)
    \/ \E j \in RenderJobs : BurnSubtitles(j)
    \/ \E j \in RenderJobs : cleanup_temp_files(j)

SpecTwoRuns == TwoRunsInit /\ [][TwoRunsNext]_vars

\* C26: when two pipeline runs overlap, every temporary file (audio track,
\* cue file) that a run has created and still needs for its composition or
\* caption pass is in TEMP_DIR: the cleanup of the other run has not deleted
\* it.
C26_CleanupSparesOtherRuns ==
    \A j \in RenderJobs : \A path \in StillNeeded(j) : InTempDir(path)

\* Only the cleanup of the other run takes a needed file away: a run whose
\* file is missing has been marked by cleanup_temp_files.
OnlyCleanupTakesNeededFiles ==
    \A j \in RenderJobs :
        (\E path \in StillNeeded(j) : ~InTempDir(path)) => tj_clobbered[j]

(***************************************************************************)
(* Further claims about the schedule registry.                             *)
(***************************************************************************)

\* the step just taken was an update_schedule call that raised
FailedUpdateStep == last_call'.op = "update" /\ ~last_call'.ok

\* C27: if update_schedule raises (unknown id, invalid time or invalid
\* timezone), the stored schedules, the registered jobs and the storage file
\* are exactly as they were before the call.
C27_FailedUpdateChangesNothing ==
    [][FailedUpdateStep =>
        /\ schedules' = schedules
        /\ jobs' = jobs
        /\ storage_file' = storage_file]_vars

\* A failed update changes neither the jobs nor the storage file, nor any
\* schedule other than the one named; and it changes nothing at all unless
\* it is a valid time followed by an unknown timezone.
FailedUpdateKeepsJobsAndFile ==
    [][FailedUpdateStep =>
        /\ jobs' = jobs
        /\ storage_file' = storage_file
        /\ IdsOf(schedules') = IdsOf(schedules)
        /\ \A id \in IdsOf(schedules) :
              id # last_call'.id => Lookup(schedules', id) = Lookup(schedules, id)
        /\ ( \/ last_call'.id \notin IdsOf(schedules)
             \/ last_call'.args[1] = None
             \/ ~ValidTime(ParseTime(last_call'.args[1])) ) => schedules' = schedules]_vars

(***************************************************************************)
(* Specification SpecRunDelete: a scheduled run during which                *)
(* delete_schedule may be called.  The handler looks its schedule up once,  *)
(* when it starts (line 182), and keeps that dict while main() runs;        *)
(* last_call.ret is the dict it holds, and last_call.args says whether the  *)
(* schedule was deleted in the meantime.                                    *)
(***************************************************************************)

\* _run_scheduled_automation, lines 181-199: the job fires, the handler finds
\* its schedule and calls main(); one run at a time
BeginScheduledRun(id) ==
    /\ last_call.op # "trigger"
    /\ id \in JobIds(jobs)
    /\ id \in IdsOf(schedules)
    /\ Lookup(schedules, id).run_count < MaxRuns
    /\ last_call' = [Call("trigger", id, <<>>, TRUE) EXCEPT
                        !.before = Lookup(schedules, id).run_count,
                        !.ret = Lookup(schedules, id)]
    /\ UNCHANGED <<schedules, jobs, storage_file>>
    /\ RunFrame

\* delete_schedule, lines 293-314, called while a run is or is not under way
DeleteInRun(id) ==
    /\ IF id \notin IdsOf(schedules)
       THEN UNCHANGED <<schedules, jobs, storage_file>>
       ELSE /\ jobs' = RemoveJob(jobs, id)
            /\ schedules' = Without(schedules, id)
            /\ storage_file' = SaveSchedules(schedules')
    /\ last_call' =
         IF last_call.op = "trigger"
         THEN [last_call EXCEPT !.args =
                 IF id = last_call.id /\ id \in IdsOf(schedules)
                 THEN <<"deleted">> ELSE @]
         ELSE Call("delete", id, <<>>, id \in IdsOf(schedules))
    /\ RunFrame

AfterRun_PutBack(scheds, done) == Store(scheds, done)

\* lines 202-204, 210: the handler assigns to the dict it holds, which is
\* the stored one unless the schedule was deleted: then self.schedules has
\* no entry for it and is not given one
AfterRun(scheds, done) ==
    IF done.id \in IdsOf(scheds) THEN Store(scheds, done) ELSE scheds

\* _run_scheduled_automation, lines 196-216: main() ends
FinishRun(outcome) ==
    /\ last_call.op = "trigger"
    /\ outcome \in MainOutcomes(keys_valid)
    /\ LET id == last_call.id
           s == IF id \in IdsOf(schedules) THEN Lookup(schedules, id)
                ELSE last_call.ret
           done == IF outcome = "returned"
                   THEN [s EXCEPT !.last_run = "set",
                                  !.run_count = s.run_count + 1,
                                  !.last_result = LastResult(outcome)]
                   ELSE IF outcome = "raised"
                   THEN [s EXCEPT !.last_result = LastResult(outcome)]
                   ELSE s
       IN  /\ IF outcome = "exit"
              THEN UNCHANGED <<schedules, storage_file>>
              ELSE /\ schedules' = AfterRun(schedules, done)
                   /\ storage_file' = SaveSchedules(schedules')
           /\ last_call' = [last_call EXCEPT !.op = "run",
                                             !.args = <<outcome>> \o last_call.args,
                                             !.ok = (outcome = "returned"),
                                             !.ret = done]
    /\ UNCHANGED jobs
    /\ RunFrame

RunDeleteNext ==
    \/ \E id \in ScheduleIds : BeginScheduledRun(id)
    \/ \E id \in ScheduleIds : DeleteInRun(id)
    \/ \E outcome \in {"returned", "exit", "raised"} : FinishRun(outcome)

SpecRunDelete == RunInit /\ [][RunDeleteNext]_vars

\* the run that has just ended had its schedule deleted under it
RunEndedAfterDelete ==
    /\ last_call.op = "run"
    /\ Len(last_call.args) = 2 /\ last_call.args[2] = "deleted"

\* C30: if a schedule is deleted while its scheduled automation is running,
\* then when that run has ended the schedule is neither in the in-memory
\* schedule map nor in the storage file, and no job is registered for it.
C30_DeletedStaysDeleted ==
    RunEndedAfterDelete =>
        /\ last_call.id \notin IdsOf(schedules)
        /\ last_call.id \notin IdsOf(storage_file)
        /\ last_call.id \notin JobIds(jobs)

C30_Witness ==
    /\ RunEndedAfterDelete
    /\ last_call.args[1] = "returned"
    /\ last_call.ret.run_count = 1
    /\ Len(schedules) = 1
    /\ storage_file = schedules

(***************************************************************************)
(* Specification SpecWeb: the web-triggered automation run of app.py.      *)
(* The request handlers and the background task are coroutines of one      *)
(* event loop.  Neither handler awaits, so each is one step; the task      *)
(* calls the pipeline synchronously (line 1093), so while it executes no   *)
(* handler runs.  A task added by a handler starts after the response has  *)
(* been sent, which is at once or after other requests have been served.   *)
(***************************************************************************)

MaxTasks == 2

\* the values of progress a run can stop at without a video (lines 1089,
\* 1178, 1191, 1200, 1209, 1229, 1256)
FailedProgress == {10, 15, 30, 45, 60, 75, 90}

\* the event loop is not held by an executing task
LoopFree == \A i \in DOMAIN background_tasks : background_tasks[i] # "executing"

\* run_automation_async, lines 1088-1089: the task begins
Began(status) ==
    [status EXCEPT !.current_step = "Fetching trending topics...",
                   !.progress = 10]

WebInit ==
    /\ automation_status = InitialStatus
    /\ background_tasks = <<>>
    /\ IdleAlloc /\ IdleCue /\ IdleEnc /\ IdleJob /\ IdleSched /\ IdleTwo

WebFrame == UNCHANGED <<allocVars, cueVars, encVars, jobVars, schedVars, twoVars>>

\* trigger_automation, lines 948-968; a request met while running is true
\* is answered 400 and changes nothing
TriggerAutomation(at_once) ==
    /\ LoopFree
    /\ Len(background_tasks) < MaxTasks
    /\ IF automation_status.running
       THEN UNCHANGED <<automation_status, background_tasks>>
       ELSE LET started == [automation_status EXCEPT
                               !.running = TRUE,
                               !.current_step = "Starting...",
                               !.progress = 0,
                               !.error = "None",
                               !.logs = <<>>]
            IN  IF at_once
                THEN /\ automation_status' = Began(started)
                     /\ background_tasks' = Append(background_tasks, "executing")
                ELSE /\ automation_status' = started
                     /\ background_tasks' = Append(background_tasks, "pending")
    /\ WebFrame

\* stop_automation, lines 970-975
StopAutomation ==
    /\ LoopFree
    /\ automation_status' = [automation_status EXCEPT
                                !.running = FALSE,
                                !.current_step = "Stopped"]
    /\ UNCHANGED background_tasks
    /\ WebFrame

\* a task added earlier begins, lines 1086-1089
StartTask(i) ==
    /\ LoopFree
    /\ i \in DOMAIN background_tasks
    /\ background_tasks[i] = "pending"
    /\ background_tasks' = [background_tasks EXCEPT ![i] = "executing"]
    /\ automation_status' = Began(automation_status)
    /\ WebFrame

RemoveAt(seq, i) == SubSeq(seq, 1, i - 1) \o SubSeq(seq, i + 1, Len(seq))

\* run_automation_async, lines 1091-1148: the pipeline returns a video path
\* (progress 100) or None (progress as far as it got)
CompleteTask(video, progress) ==
    /\ \E i \in DOMAIN background_tasks :
          /\ background_tasks[i] = "executing"
          /\ background_tasks' = RemoveAt(background_tasks, i)
    /\ automation_status' =
         IF video
         THEN [automation_status EXCEPT
                  !.running = FALSE,
                  !.current_step = "Completed successfully!",
                  !.progress = 100,
                  !.last_run = "set",
                  !.logs = Append(@, "Video created")]
         ELSE [automation_status EXCEPT
                  !.running = FALSE,
                  !.current_step = "Failed",
                  !.progress = progress,
                  !.error = "set",
                  !.logs = Append(@, "Error")]
    /\ WebFrame

WebNext ==
    \/ \E at_once \in BOOLEAN : TriggerAutomation(at_once)
    \/ StopAutomation
    \/ \E i \in 1..MaxTasks : StartTask(i)
    \/ \E video \in BOOLEAN, progress \in FailedProgress :
          CompleteTask(video, progress)

SpecWeb == WebInit /\ [][WebNext]_vars

\* the web-triggered runs in progress: triggered and not yet ended
RunsInProgress == Len(background_tasks)

\* C29: after any sequence of trigger_automation and stop_automation
\* requests and background-task completions, at most one web-triggered run
\* is in progress, and automation_status['running'] is true whenever a run
\* is in progress.
C29_OneRunAndRunningSaysSo ==
    /\ RunsInProgress <= 1
    /\ RunsInProgress > 0 => automation_status.running

\* At most one task executes at a time, and a trigger is accepted only when
\* running is false: right after an accepted trigger running is true.
OneTaskExecutes ==
    /\ \A i, j \in DOMAIN background_tasks :
          (background_tasks[i] = "executing" /\ background_tasks[j] = "executing")
              => i = j
    /\ automation_status.current_step = "Starting..." =>
          automation_status.running /\ RunsInProgress > 0

============================================================================
